---- MODULE Spec2Model ----
(***************************************************************************)
(* A model of the OMR answer-sheet grading application: the chapter        *)
(* (answer key) store, the scoring function, and the attempt recorder in   *)
(* its two submission entry points, AttemptService.submit_attempt          *)
(* (services/attempt_service.py) and the web API submit_exam (web_app.py), *)
(* over one SQLite store with the schema of database/db_manager.py.        *)
(***************************************************************************)
EXTENDS Integers, Sequences, FiniteSets, TLC

\* ------------------------------------------------------------------ bounds
\* Rows the attempts table may hold, stored or about to be inserted, when
\* request handlers interleave (Spec).
MaxAttempts == 2
\* Rows the attempts table may hold when calls run one at a time
\* (SpecSerial, SpecCalls).
MaxSerialAttempts == 3
\* Largest id the chapters AUTOINCREMENT sequence may hand out.
MaxChapterId == 2
\* Longest answer list given to calculate_score on its own (SpecScore).
MaxLen == 3
\* Rows the attempts table may hold when only the web API submits (SpecWeb).
MaxWebAttempts == 1
\* Largest option count given to the option-letter resolvers (SpecOptions).
MaxOptionCount == 10
\* Largest limit given to get_top_performers (SpecAnalytics).
MaxLimit == 2
\* Days the clock advances (SpecFilters).
MaxDay == 1
\* Chapter ids handed out, attempts stored and days passed, taken together
\* (SpecFilters).
MaxFilterSize == 5

\* ------------------------------------------------------------- input sets
\* Python None / SQL NULL: an unanswered question, a missing JSON field.
None == "None"

Procs == {"p1", "p2"}

\* update_db.py's fixed chapter.
SampleChapterName == "Sample Chapter - 20 Questions"
SampleNumQuestions == 20
SampleNumOptions == 4
SampleCorrectAnswers ==
    << "C", "D", "D", "C", "A", "C", "B", "C", "B", "C",
       "D", "C", "B", "C", "D", "A", "D", "D", "B", "A" >>

ChapterNames == {"Algebra"}
NumQuestionsInputs == {0, 1, 2}
NumOptionsInputs == {0, 4}
\* "E" is not among the first four option letters.
KeyInputs == { <<"A">>, <<"A", "E">> }

StudentInputs == {"", "Student1"}
AnswerInputs == { <<"A">>, <<"A", "B">>, <<"B", "A">>, <<None>> }

\* ---------------------------------------------------------------- messages
MsgNone == ""
MsgQuestionsPositive == "Number of questions must be positive"
MsgOptionsPositive == "Number of options must be positive"
MsgKeyLength == "Number of correct answers must match number of questions"
MsgChapterSaved == "Chapter saved successfully!"
MsgChapterExists == "Chapter already exists!"
MsgChapterError == "Error saving chapter"
MsgNameRequired == "Student name is required"
MsgIncomplete == "Please answer all questions before submitting"
MsgScoreRange == "Score must be between 0 and total questions"
MsgAttemptPositive == "Attempt number must be positive"
MsgAnswerCount == "Number of submitted answers must match total questions"
MsgSubmitted == "Attempt submitted successfully!"
MsgSaveFailed == "Failed to save attempt"
MsgChapterNotFound == "Chapter not found"
MsgWebOk == "success"
MsgUnhandled == "unhandled exception"
MsgSampleAdded == "Successfully added chapter"
MsgSampleUpdated == "Successfully updated chapter"

VARIABLES
    chapters,     \* the chapters table: a set of rows
    chapterSeq,   \* sqlite_sequence of chapters: the largest id handed out
    attempts,     \* the attempts table: rows in insertion order (id = index)
    pc,           \* per request handler: "idle", "svc_save" or "web_insert"
    loc,          \* per request handler: the attempt row it is about to insert
    last,         \* the outcome of the call that returned last
    subject_id,   \* the subject_id column of chapters: whether the table has
                  \* it, whether it has a DEFAULT, its value per chapter id
    submitted_at, \* the submitted_at column of attempts: the UTC day of
                  \* each row, by attempt id
    now           \* the current UTC day

vars == <<chapters, chapterSeq, attempts, pc, loc, last,
          subject_id, submitted_at, now>>

\* --------------------------------------------------------------- the store
NoRow ==
    [chapter_id |-> 0, student_name |-> None, submitted_answers |-> <<>>,
     score |-> 0, total_questions |-> 0, attempt_number |-> 0]

\* A returned call: its name, its arguments, what it returned.
Outcome(op, args, result) == [op |-> op, args |-> args, result |-> result]
NoCall == Outcome("none", <<>>, <<>>)

\* SELECT * FROM chapters WHERE chapter_name = ?
get_chapter_by_name(name) == {c \in chapters : c.chapter_name = name}

\* SELECT * FROM chapters WHERE id = ?
get_chapter_by_id(id) == {c \in chapters : c.id = id}

\* get_attempt_count with the chapter_id condition dropped from the WHERE.
get_attempt_count_any_chapter(chapter_id, student_name) ==
    Cardinality({i \in DOMAIN attempts :
                    attempts[i].student_name = student_name})

\* SELECT COUNT(*) FROM attempts WHERE chapter_id = ? AND student_name = ?
get_attempt_count(chapter_id, student_name) ==
    Cardinality({i \in DOMAIN attempts :
                    /\ attempts[i].chapter_id = chapter_id
                    /\ attempts[i].student_name = student_name})

\* max_attempt with the chapter_id condition dropped from the WHERE.
max_attempt_any_chapter(chapter_id, student_name) ==
    LET nums == {attempts[i].attempt_number : i \in
                    {j \in DOMAIN attempts :
                        /\ student_name # None
                        /\ attempts[j].student_name = student_name}}
    IN IF nums = {} THEN 0 ELSE CHOOSE n \in nums : \A m \in nums : m <= n

\* SELECT MAX(attempt_number) ... WHERE chapter_id = ? AND student_name = ?
\* followed by "or 0"; student_name = NULL matches no row.
max_attempt(chapter_id, student_name) ==
    LET nums == {attempts[i].attempt_number : i \in
                    {j \in DOMAIN attempts :
                        /\ student_name # None
                        /\ attempts[j].chapter_id = chapter_id
                        /\ attempts[j].student_name = student_name}}
    IN IF nums = {} THEN 0 ELSE CHOOSE n \in nums : \A m \in nums : m <= n

\* The chapters table as initialize_database creates it: no subject_id
\* column.
NoSubjectColumn ==
    [present |-> FALSE, has_default |-> FALSE, value |-> [id \in {} |-> 0]]

\* subject_id INTEGER NOT NULL DEFAULT 1 (init_db of web_app.py).
SubjectIdDefault == 1

\* The subject_id column once the chapters table holds rows: a row that stays
\* keeps its value, a row inserted without one takes the DEFAULT.
SubjectColumnOf(rows) ==
    IF ~subject_id.present THEN subject_id
    ELSE [subject_id EXCEPT !.value =
             [id \in {c.id : c \in rows} |->
                 IF id \in DOMAIN subject_id.value
                 THEN subject_id.value[id] ELSE SubjectIdDefault]]

\* INSERT INTO chapters (chapter_name, num_questions, num_options,
\* correct_answers) raises IntegrityError when subject_id is NOT NULL and has
\* no DEFAULT, the column migrate_database creates.
InsertChapterRefused == subject_id.present /\ ~subject_id.has_default

\* A stored timestamp 'YYYY-MM-DD HH:MM:SS' is <<day, second of the day>>; the
\* model keeps every timestamp at 00:00:00, the least one of its day. The
\* text of a date, 'YYYY-MM-DD', is <<day>>.
CurrentTimestamp == <<now, 0>>

\* The submitted_at column once the attempts table holds rows: DEFAULT
\* CURRENT_TIMESTAMP gives a new row the current UTC time.
SubmittedAtOf(rows) ==
    IF Len(rows) > Len(submitted_at)
    THEN Append(submitted_at, CurrentTimestamp)
    ELSE submitted_at

\* ----------------------------------------------------------------- scoring
\* calculate_score that also counts an unanswered entry.
RECURSIVE calculate_score_unanswered(_, _)
calculate_score_unanswered(correct_answers, submitted_answers) ==
    IF correct_answers = <<>> \/ submitted_answers = <<>>
    THEN 0
    ELSE (IF Head(correct_answers) = Head(submitted_answers)
             \/ Head(submitted_answers) = None THEN 1 ELSE 0)
         + calculate_score_unanswered(Tail(correct_answers),
                                      Tail(submitted_answers))

\* sum(1 for correct, submitted in zip(correct_answers, submitted_answers)
\*     if correct == submitted): zip stops at the shorter list.
RECURSIVE calculate_score(_, _)
calculate_score(correct_answers, submitted_answers) ==
    IF correct_answers = <<>> \/ submitted_answers = <<>>
    THEN 0
    ELSE (IF Head(correct_answers) = Head(submitted_answers) THEN 1 ELSE 0)
         + calculate_score(Tail(correct_answers), Tail(submitted_answers))

\* WebScore with the sum started at 1, sum(..., 1).
WebScoreStartOne(correct_answers, submitted_answers) ==
    IF Len(submitted_answers) > Len(correct_answers)
    THEN [raised |-> TRUE, score |-> 0]
    ELSE [raised |-> FALSE,
          score |-> 1 + Cardinality({i \in 1..Len(submitted_answers) :
                                        submitted_answers[i] = correct_answers[i]})]

\* submit_exam's inline score,
\*   sum(1 for i, ans in enumerate(submitted_answers) if ans == correct_answers[i]):
\* correct_answers[i] raises IndexError at the first i >= len(correct_answers).
WebScore(correct_answers, submitted_answers) ==
    IF Len(submitted_answers) > Len(correct_answers)
    THEN [raised |-> TRUE, score |-> 0]
    ELSE [raised |-> FALSE,
          score |-> Cardinality({i \in 1..Len(submitted_answers) :
                                    submitted_answers[i] = correct_answers[i]})]

\* ----------------------------------------------------------------- options
\* config/settings.py
OPTION_LETTERS == <<"A", "B", "C", "D", "E", "F", "G", "H">>

\* OptionHelper.get_option_letters: [raised, letters]; raised is the
\* ValueError "Number of options must be between 1 and 8".
get_option_letters(num_options) ==
    IF num_options <= 0 \/ num_options > Len(OPTION_LETTERS)
    THEN [raised |-> TRUE, letters |-> <<>>]
    ELSE [raised |-> FALSE, letters |-> SubSeq(OPTION_LETTERS, 1, num_options)]

\* chr(65 + i) for 0 <= i < 26.
AsciiFrom65 ==
    << "A", "B", "C", "D", "E", "F", "G", "H", "I", "J", "K", "L", "M",
       "N", "O", "P", "Q", "R", "S", "T", "U", "V", "W", "X", "Y", "Z" >>

\* app.py's get_option_letters, [chr(65 + i) for i in range(num_options)]:
\* no range check, range(n) is empty for n <= 0. [raised, letters].
app_get_option_letters(num_options) ==
    [raised |-> FALSE,
     letters |-> [i \in 1..num_options |-> AsciiFrom65[i]]]

\* OptionHelper.validate_answer: [raised, valid].
validate_answer(answer, num_options) ==
    LET r == get_option_letters(num_options)
    IN [raised |-> r.raised,
        valid |-> ~r.raised /\ \E i \in DOMAIN r.letters : r.letters[i] = answer]

\* -------------------------------------------------------------- validation
\* ChapterPostInit without the comparison of the key's length.
ChapterPostInitNoLength(num_questions, num_options, correct_answers) ==
    IF num_questions <= 0 THEN MsgQuestionsPositive
    ELSE IF num_options <= 0 THEN MsgOptionsPositive
    ELSE MsgNone

\* Chapter.__post_init__: the ValueError it raises, or MsgNone.
ChapterPostInit(num_questions, num_options, correct_answers) ==
    IF num_questions <= 0 THEN MsgQuestionsPositive
    ELSE IF num_options <= 0 THEN MsgOptionsPositive
    ELSE IF Len(correct_answers) # num_questions THEN MsgKeyLength
    ELSE MsgNone

\* Attempt.__post_init__: the ValueError it raises, or MsgNone.
AttemptPostInit(row) ==
    IF row.score < 0 \/ row.score > row.total_questions THEN MsgScoreRange
    ELSE IF row.attempt_number <= 0 THEN MsgAttemptPositive
    ELSE IF Len(row.submitted_answers) # row.total_questions THEN MsgAnswerCount
    ELSE MsgNone

\* ----------------------------------------------------------- serialization
\* JSON text is a sequence of characters. An answer label is one character.
\* json.dumps of one list element: None is null, a str is written in double
\* quotes with '"' and '\' escaped by a backslash.
JsonItem(x) ==
    IF x = None THEN <<"n", "u", "l", "l">>
    ELSE IF x \in {"\"", "\\"} THEN <<"\"", "\\", x, "\"">>
    ELSE <<"\"", x, "\"">>

RECURSIVE JsonItems(_)
JsonItems(list) ==
    IF list = <<>> THEN <<>>
    ELSE IF Len(list) = 1 THEN JsonItem(list[1])
    ELSE JsonItem(Head(list)) \o <<",", " ">> \o JsonItems(Tail(list))

\* json_dumps writing the elements last to first.
json_dumps_reversed(list) ==
    <<"[">> \o JsonItems([i \in 1..Len(list) |-> list[Len(list) + 1 - i]])
            \o <<"]">>

\* json.dumps(list) with the default separators (', ').
json_dumps(list) == <<"[">> \o JsonItems(list) \o <<"]">>

\* json.loads of an array of strings and nulls, read left to right from
\* position i; whitespace between tokens is skipped.
RECURSIVE JsonParse(_, _, _)
JsonParse(text, i, acc) ==
    IF i > Len(text) \/ text[i] = "]" THEN acc
    ELSE IF text[i] \in {"[", ",", " "} THEN JsonParse(text, i + 1, acc)
    ELSE IF text[i] = "n" THEN JsonParse(text, i + 4, Append(acc, None))
    ELSE IF text[i + 1] = "\\"
    THEN JsonParse(text, i + 4, Append(acc, text[i + 2]))
    ELSE JsonParse(text, i + 3, Append(acc, text[i + 1]))

json_loads(text) == JsonParse(text, 1, <<>>)

\* Chapter.get_correct_answers_json
get_correct_answers_json(correct_answers) == json_dumps(correct_answers)

\* ---------------------------------------------------------- chapter writes
\* INSERT INTO chapters under the schema of initialize_database: the id comes
\* from the AUTOINCREMENT sequence, chapter_name is UNIQUE. The
\* correct_answers column holds the JSON text; the model keeps the row as its
\* readers see it, the column decoded by json.loads (Chapter.from_db_row,
\* submit_exam).
InsertChapter(name, num_questions, num_options, correct_answers) ==
    [id |-> chapterSeq + 1, chapter_name |-> name,
     num_questions |-> num_questions, num_options |-> num_options,
     correct_answers |-> json_loads(get_correct_answers_json(correct_answers))]

\* save_chapter with INSERT OR REPLACE: a duplicate name overwrites the row.
save_chapter_replace(name, num_questions, num_options, correct_answers, ioOk) ==
    IF ~ioOk
    THEN [success |-> FALSE, message |-> MsgChapterError,
          chapters |-> chapters, chapterSeq |-> chapterSeq]
    ELSE [success |-> TRUE, message |-> MsgChapterSaved,
          chapters |-> (chapters \ get_chapter_by_name(name)) \cup
              {InsertChapter(name, num_questions, num_options, correct_answers)},
          chapterSeq |-> chapterSeq + 1]

\* DatabaseManager.save_chapter: [success, message, chapters, chapterSeq].
\* ioOk = FALSE is a storage error other than an IntegrityError (the UNIQUE
\* conflict, a NOT NULL column left out); the connection's context manager
\* rolls back on every exception.
save_chapter(name, num_questions, num_options, correct_answers, ioOk) ==
    IF ~ioOk
    THEN [success |-> FALSE, message |-> MsgChapterError,
          chapters |-> chapters, chapterSeq |-> chapterSeq]
    ELSE IF get_chapter_by_name(name) # {} \/ InsertChapterRefused
    THEN [success |-> FALSE, message |-> MsgChapterExists,
          chapters |-> chapters, chapterSeq |-> chapterSeq]
    ELSE [success |-> TRUE, message |-> MsgChapterSaved,
          chapters |-> chapters \cup
              {InsertChapter(name, num_questions, num_options, correct_answers)},
          chapterSeq |-> chapterSeq + 1]

\* ChapterService.create_chapter: build the Chapter (validation), then save.
create_chapter(name, num_questions, num_options, correct_answers, ioOk) ==
    LET err == ChapterPostInit(num_questions, num_options, correct_answers)
    IN IF err # MsgNone
       THEN [success |-> FALSE, message |-> err,
             chapters |-> chapters, chapterSeq |-> chapterSeq]
       ELSE save_chapter(name, num_questions, num_options, correct_answers, ioOk)

\* ---------------------------------------------------------- attempt writes
\* InsertAttempt under a schema with
\* UNIQUE (chapter_id, student_name, attempt_number).
InsertAttemptUnique(row, ioOk) ==
    IF /\ ioOk
       /\ row.student_name # None
       /\ ~\E i \in DOMAIN attempts :
              /\ attempts[i].chapter_id = row.chapter_id
              /\ attempts[i].student_name = row.student_name
              /\ attempts[i].attempt_number = row.attempt_number
    THEN [ok |-> TRUE, rows |-> Append(attempts, row)]
    ELSE [ok |-> FALSE, rows |-> attempts]

\* InsertAttempt whose failure is raised by the commit, and is not rolled
\* back: the row stays.
InsertAttemptNoRollback(row, ioOk) ==
    IF row.student_name # None
    THEN [ok |-> ioOk, rows |-> Append(attempts, row)]
    ELSE [ok |-> FALSE, rows |-> attempts]

\* INSERT INTO attempts under the schema of initialize_database: every column
\* is NOT NULL, and no UNIQUE constraint covers
\* (chapter_id, student_name, attempt_number). [ok, rows].
InsertAttempt(row, ioOk) ==
    IF ioOk /\ row.student_name # None
    THEN [ok |-> TRUE, rows |-> Append(attempts, row)]
    ELSE [ok |-> FALSE, rows |-> attempts]

\* DatabaseManager.save_attempt: True/False, rollback on any exception.
save_attempt(row, ioOk) == InsertAttempt(row, ioOk)

\* SubmitAttemptBuild with the first two checks in the other order.
SubmitAttemptBuildSwapped(chapter, student_name, submitted_answers, count) ==
    IF \E i \in DOMAIN submitted_answers : submitted_answers[i] = None
    THEN [ok |-> FALSE, message |-> MsgIncomplete, row |-> NoRow]
    ELSE IF student_name = "" \/ student_name = None
    THEN [ok |-> FALSE, message |-> MsgNameRequired, row |-> NoRow]
    ELSE LET row == [chapter_id |-> chapter.id,
                     student_name |-> student_name,
                     submitted_answers |-> submitted_answers,
                     score |-> calculate_score(chapter.correct_answers,
                                               submitted_answers),
                     total_questions |-> chapter.num_questions,
                     attempt_number |-> count + 1]
             err == AttemptPostInit(row)
         IN IF err # MsgNone
            THEN [ok |-> FALSE, message |-> err, row |-> NoRow]
            ELSE [ok |-> TRUE, message |-> MsgNone, row |-> row]

\* AttemptService.submit_attempt up to the Attempt it is about to save
\* (lines 55-80): [ok, message, row]. count is get_attempt_count's answer.
SubmitAttemptBuild(chapter, student_name, submitted_answers, count) ==
    IF student_name = "" \/ student_name = None
    THEN [ok |-> FALSE, message |-> MsgNameRequired, row |-> NoRow]
    ELSE IF \E i \in DOMAIN submitted_answers : submitted_answers[i] = None
    THEN [ok |-> FALSE, message |-> MsgIncomplete, row |-> NoRow]
    ELSE LET row == [chapter_id |-> chapter.id,
                     student_name |-> student_name,
                     submitted_answers |-> submitted_answers,
                     score |-> calculate_score(chapter.correct_answers,
                                               submitted_answers),
                     total_questions |-> chapter.num_questions,
                     attempt_number |-> count + 1]
             err == AttemptPostInit(row)
         IN IF err # MsgNone
            THEN [ok |-> FALSE, message |-> err, row |-> NoRow]
            ELSE [ok |-> TRUE, message |-> MsgNone, row |-> row]

\* SubmitExamBuild without the "if not chapter" return: a missing chapter
\* reaches json.loads(chapter['correct_answers']) and raises.
SubmitExamBuildNoLookup(chapter_id, student_name, submitted_answers) ==
    IF get_chapter_by_id(chapter_id) = {}
    THEN [ok |-> FALSE, message |-> MsgUnhandled, row |-> NoRow]
    ELSE LET chapter == CHOOSE c \in get_chapter_by_id(chapter_id) : TRUE
             sc == WebScore(chapter.correct_answers, submitted_answers)
         IN IF sc.raised
            THEN [ok |-> FALSE, message |-> MsgUnhandled, row |-> NoRow]
            ELSE [ok |-> TRUE, message |-> MsgNone,
                  row |-> [chapter_id |-> chapter_id,
                           student_name |-> student_name,
                           submitted_answers |-> submitted_answers,
                           score |-> sc.score,
                           total_questions |-> Len(chapter.correct_answers),
                           attempt_number |->
                               max_attempt(chapter_id, student_name) + 1]]

\* submit_exam up to the row it is about to insert (lines 152-171):
\* [ok, message, row]. An IndexError of the score is not caught.
SubmitExamBuild(chapter_id, student_name, submitted_answers) ==
    IF get_chapter_by_id(chapter_id) = {}
    THEN [ok |-> FALSE, message |-> MsgChapterNotFound, row |-> NoRow]
    ELSE LET chapter == CHOOSE c \in get_chapter_by_id(chapter_id) : TRUE
             sc == WebScore(chapter.correct_answers, submitted_answers)
         IN IF sc.raised
            THEN [ok |-> FALSE, message |-> MsgUnhandled, row |-> NoRow]
            ELSE [ok |-> TRUE, message |-> MsgNone,
                  row |-> [chapter_id |-> chapter_id,
                           student_name |-> student_name,
                           submitted_answers |-> submitted_answers,
                           score |-> sc.score,
                           total_questions |-> Len(chapter.correct_answers),
                           attempt_number |->
                               max_attempt(chapter_id, student_name) + 1]]

\* ------------------------------------------------------------------- Init
Init ==
    /\ chapters = {}
    /\ chapterSeq = 0
    /\ attempts = <<>>
    /\ pc = [p \in Procs |-> "idle"]
    /\ loc = [p \in Procs |-> NoRow]
    /\ last = NoCall
    /\ subject_id = NoSubjectColumn
    /\ submitted_at = <<>>
    /\ now = 0

AllIdle == \A p \in Procs : pc[p] = "idle"
InFlight == Cardinality({p \in Procs : pc[p] # "idle"})

\* ---------------------------------------------------------------- actions
\* The actions below leave `last` to the specification: SpecCalls and
\* SpecScore record in it the call that returned, Spec and SpecSerial leave it
\* alone.
\* ChapterService.create_chapter, one call.
CreateChapter(name, num_questions, num_options, correct_answers, ioOk) ==
    LET r == create_chapter(name, num_questions, num_options,
                            correct_answers, ioOk)
    IN /\ chapterSeq < MaxChapterId
       /\ chapters' = r.chapters
       /\ chapterSeq' = r.chapterSeq
       /\ subject_id' = SubjectColumnOf(r.chapters)
       /\ UNCHANGED <<attempts, pc, loc, submitted_at>>

\* update_db.py, one run: insert the sample chapter; on the UNIQUE conflict
\* delete the old row (the attempts table is not touched, and SQLite does not
\* enforce the FOREIGN KEY clause unless PRAGMA foreign_keys is set, which no
\* file of the repository does) and insert again, under a new id. When the
\* INSERT is refused for the subject_id column, the second INSERT raises too,
\* nothing is committed and the run changes nothing.
UpdateDb ==
    LET new == InsertChapter(SampleChapterName, SampleNumQuestions,
                             SampleNumOptions, SampleCorrectAnswers)
        old == get_chapter_by_name(SampleChapterName)
    IN /\ chapterSeq < MaxChapterId
       /\ ~InsertChapterRefused
       /\ chapters' = (chapters \ old) \cup {new}
       /\ chapterSeq' = chapterSeq + 1
       /\ subject_id' = SubjectColumnOf((chapters \ old) \cup {new})
       /\ UNCHANGED <<attempts, pc, loc, submitted_at>>

\* AttemptService.submit_attempt, first half: validation, score, the COUNT
\* query (its own connection) and the Attempt object. chapter is the object
\* the caller loaded with get_chapter_by_name.
SvcRead(p, chapter, student_name, submitted_answers) ==
    LET b == SubmitAttemptBuild(chapter, student_name, submitted_answers,
                                get_attempt_count(chapter.id, student_name))
    IN /\ pc[p] = "idle"
       /\ Len(attempts) + InFlight < MaxAttempts
       /\ b.ok
       /\ pc' = [pc EXCEPT ![p] = "svc_save"]
       /\ loc' = [loc EXCEPT ![p] = b.row]
       /\ UNCHANGED <<chapters, chapterSeq, attempts, subject_id, submitted_at>>

\* AttemptService.submit_attempt, second half: save_attempt (a second
\* connection) and the returned tuple.
SvcSave(p, ioOk) ==
    /\ pc[p] = "svc_save"
    /\ attempts' = save_attempt(loc[p], ioOk).rows
    /\ submitted_at' = SubmittedAtOf(save_attempt(loc[p], ioOk).rows)
    /\ pc' = [pc EXCEPT ![p] = "idle"]
    /\ loc' = [loc EXCEPT ![p] = NoRow]
    /\ UNCHANGED <<chapters, chapterSeq, subject_id>>

\* submit_exam, first half: chapter lookup, score, the MAX query.
WebRead(p, chapter_id, student_name, submitted_answers) ==
    LET b == SubmitExamBuild(chapter_id, student_name, submitted_answers)
    IN /\ pc[p] = "idle"
       /\ Len(attempts) + InFlight < MaxAttempts
       /\ b.ok
       /\ pc' = [pc EXCEPT ![p] = "web_insert"]
       /\ loc' = [loc EXCEPT ![p] = b.row]
       /\ UNCHANGED <<chapters, chapterSeq, attempts, subject_id, submitted_at>>

\* submit_exam, second half: the INSERT and commit. A failed INSERT (NOT NULL
\* on a missing student_name, a storage error) is an uncaught exception.
WebInsert(p, ioOk) ==
    /\ pc[p] = "web_insert"
    /\ attempts' = InsertAttempt(loc[p], ioOk).rows
    /\ submitted_at' = SubmittedAtOf(InsertAttempt(loc[p], ioOk).rows)
    /\ pc' = [pc EXCEPT ![p] = "idle"]
    /\ loc' = [loc EXCEPT ![p] = NoRow]
    /\ UNCHANGED <<chapters, chapterSeq, subject_id>>

\* The Attempt object submit_attempt builds (lines 72-80): the dataclass
\* defaults leave id and submitted_at None, and save_attempt, which returns a
\* bool, assigns neither.
AttemptObject(row) == row @@ [id |-> None, submitted_at |-> None]

\* AttemptService.submit_attempt, one whole call:
\* [success, attempt, message] as returned, and rows, the attempts table.
submit_attempt(chapter, student_name, submitted_answers, ioOk) ==
    LET b == SubmitAttemptBuild(chapter, student_name, submitted_answers,
                                get_attempt_count(chapter.id, student_name))
        r == save_attempt(b.row, ioOk)
    IN IF ~b.ok
       THEN [success |-> FALSE, attempt |-> None, message |-> b.message,
             rows |-> attempts]
       ELSE IF r.ok
       THEN [success |-> TRUE, attempt |-> AttemptObject(b.row),
             message |-> MsgSubmitted, rows |-> r.rows]
       ELSE [success |-> FALSE, attempt |-> None, message |-> MsgSaveFailed,
             rows |-> r.rows]

\* submit_exam, one whole request: [success, message, rows].
submit_exam(chapter_id, student_name, submitted_answers, ioOk) ==
    LET b == SubmitExamBuild(chapter_id, student_name, submitted_answers)
        r == InsertAttempt(b.row, ioOk)
    IN IF ~b.ok
       THEN [success |-> FALSE, message |-> b.message, rows |-> attempts]
       ELSE IF r.ok
       THEN [success |-> TRUE, message |-> MsgWebOk, rows |-> r.rows]
       ELSE [success |-> FALSE, message |-> MsgUnhandled, rows |-> r.rows]

\* submit_attempt with no other writer between its COUNT and its INSERT.
SubmitAttempt(chapter, student_name, submitted_answers, ioOk) ==
    /\ AllIdle
    /\ Len(attempts) < MaxSerialAttempts
    /\ attempts' =
           submit_attempt(chapter, student_name, submitted_answers, ioOk).rows
    /\ submitted_at' = SubmittedAtOf(
           submit_attempt(chapter, student_name, submitted_answers, ioOk).rows)
    /\ UNCHANGED <<chapters, chapterSeq, pc, loc, subject_id>>

\* submit_exam with no other writer between its MAX and its INSERT.
SubmitExam(chapter_id, student_name, submitted_answers, ioOk) ==
    /\ AllIdle
    /\ Len(attempts) < MaxSerialAttempts
    /\ attempts' =
           submit_exam(chapter_id, student_name, submitted_answers, ioOk).rows
    /\ submitted_at' = SubmittedAtOf(
           submit_exam(chapter_id, student_name, submitted_answers, ioOk).rows)
    /\ UNCHANGED <<chapters, chapterSeq, pc, loc, subject_id>>

\* ---------------------------------------------------------- specifications
CreateChapterStep ==
    \E name \in ChapterNames, nq \in NumQuestionsInputs,
       no \in NumOptionsInputs, key \in KeyInputs, ioOk \in BOOLEAN :
        CreateChapter(name, nq, no, key, ioOk)

SvcReadStep ==
    \E p \in Procs, chapter \in chapters, s \in StudentInputs,
       a \in AnswerInputs : SvcRead(p, chapter, s, a)

SvcSaveStep == \E p \in Procs, ioOk \in BOOLEAN : SvcSave(p, ioOk)

WebReadStep ==
    \E p \in Procs, id \in 1..MaxChapterId, s \in StudentInputs \cup {None},
       a \in AnswerInputs : WebRead(p, id, s, a)

WebInsertStep == \E p \in Procs, ioOk \in BOOLEAN : WebInsert(p, ioOk)

SubmitAttemptStep ==
    \E chapter \in chapters, s \in StudentInputs, a \in AnswerInputs,
       ioOk \in BOOLEAN : SubmitAttempt(chapter, s, a, ioOk)

SubmitExamStep ==
    \E id \in 1..MaxChapterId, s \in StudentInputs \cup {None},
       a \in AnswerInputs, ioOk \in BOOLEAN : SubmitExam(id, s, a, ioOk)

\* Request handlers interleave at their store accesses.
Next ==
    \/ CreateChapterStep /\ UNCHANGED <<last, now>>
    \/ UpdateDb /\ UNCHANGED <<last, now>>
    \/ SvcReadStep /\ UNCHANGED <<last, now>>
    \/ SvcSaveStep /\ UNCHANGED <<last, now>>
    \/ WebReadStep /\ UNCHANGED <<last, now>>
    \/ WebInsertStep /\ UNCHANGED <<last, now>>

Spec == Init /\ [][Next]_vars

\* Every call completes before the next starts.
NextSerial ==
    \/ CreateChapterStep /\ UNCHANGED <<last, now>>
    \/ UpdateDb /\ UNCHANGED <<last, now>>
    \/ SubmitAttemptStep /\ UNCHANGED <<last, now>>
    \/ SubmitExamStep /\ UNCHANGED <<last, now>>

SpecSerial == Init /\ [][NextSerial]_vars

\* The service layer one call at a time, each call recorded in `last`.
CallCreateChapter ==
    \E name \in ChapterNames, nq \in NumQuestionsInputs,
       no \in NumOptionsInputs, key \in KeyInputs, ioOk \in BOOLEAN :
        LET r == create_chapter(name, nq, no, key, ioOk)
        IN /\ CreateChapter(name, nq, no, key, ioOk)
           /\ last' = Outcome("create_chapter",
                  [chapter_name |-> name, num_questions |-> nq,
                   num_options |-> no, correct_answers |-> key, ioOk |-> ioOk],
                  [success |-> r.success, message |-> r.message])
           /\ UNCHANGED now

CallUpdateDb ==
    /\ UpdateDb
    /\ UNCHANGED now
    /\ last' = Outcome("update_db", <<>>,
           [success |-> TRUE,
            message |-> IF get_chapter_by_name(SampleChapterName) = {}
                        THEN MsgSampleAdded ELSE MsgSampleUpdated])

CallSubmitAttempt ==
    \E chapter \in chapters, s \in StudentInputs \cup {None},
       a \in AnswerInputs, ioOk \in BOOLEAN :
        LET r == submit_attempt(chapter, s, a, ioOk)
        IN /\ SubmitAttempt(chapter, s, a, ioOk)
           /\ last' = Outcome("submit_attempt",
                  [chapter |-> chapter, student_name |-> s,
                   submitted_answers |-> a, ioOk |-> ioOk],
                  [success |-> r.success, message |-> r.message])
           /\ UNCHANGED now

NextCalls ==
    \/ CallCreateChapter
    \/ CallUpdateDb
    \/ CallSubmitAttempt

SpecCalls == Init /\ [][NextCalls]_vars

\* The web API one request at a time, each submit_exam request recorded in
\* `last`; chapters come and go through update_db.py, which forgets the last
\* request.
WebChapterWrite ==
    /\ UpdateDb
    /\ last' = NoCall
    /\ UNCHANGED now

CallSubmitExam ==
    \E id \in 1..MaxChapterId, s \in StudentInputs \cup {None},
       a \in AnswerInputs, ioOk \in BOOLEAN :
        LET r == submit_exam(id, s, a, ioOk)
        IN /\ Len(r.rows) <= MaxWebAttempts
           /\ SubmitExam(id, s, a, ioOk)
           /\ last' = Outcome("submit_exam",
                  [chapter_id |-> id, student_name |-> s,
                   submitted_answers |-> a, ioOk |-> ioOk],
                  [success |-> r.success, message |-> r.message])
           /\ UNCHANGED now

NextWeb ==
    \/ WebChapterWrite
    \/ CallSubmitExam

SpecWeb == Init /\ [][NextWeb]_vars

\* calculate_score on its own, over every pair of bounded lists.
SeqsUpTo(S, n) == UNION {[1..k -> S] : k \in 0..n}
Labels == {"A", "B"}

CallCalculateScore ==
    \E correct \in SeqsUpTo(Labels, MaxLen),
       submitted \in SeqsUpTo(Labels \cup {None}, MaxLen) :
        /\ last' = Outcome("calculate_score",
               [correct_answers |-> correct, submitted_answers |-> submitted],
               calculate_score(correct, submitted))
        /\ UNCHANGED <<chapters, chapterSeq, attempts, pc, loc,
                     subject_id, submitted_at, now>>

NextScore == CallCalculateScore

SpecScore == Init /\ [][NextScore]_vars

\* submit_exam's inline score on its own, over the pairs of lists
\* calculate_score is given.
CallWebScore ==
    \E correct \in SeqsUpTo(Labels, MaxLen),
       submitted \in SeqsUpTo(Labels \cup {None}, MaxLen) :
        /\ last' = Outcome("web_score",
               [correct_answers |-> correct, submitted_answers |-> submitted],
               WebScore(correct, submitted))
        /\ UNCHANGED <<chapters, chapterSeq, attempts, pc, loc,
                       subject_id, submitted_at, now>>

NextWebScore == CallWebScore

SpecWebScore == Init /\ [][NextWebScore]_vars

\* ----------------------------------------------------- the Streamlit page
MsgAnswerAll == "Please answer all questions before submitting!"
MsgTestSubmitted == "Test submitted successfully!"
MsgErrorSubmitting == "Error submitting exam"

\* submit_omr_page of app.py once the Submit button is pressed (lines
\* 1028-1132): [success, error, rows]; success is the "Test submitted
\* successfully!" box, error the st.error text. attempt_count is bound only
\* when the name is not empty, so with an empty name attempt_count + 1 raises
\* inside the try. After a save that succeeded the flow shows the success
\* box and then reads attempt_result, a name bound nowhere in app.py: the
\* NameError is caught by the same except, which reports it. A save that
\* returned False shows nothing.
submit_omr_page(chapter, student_name, submitted_answers, ioOk) ==
    IF \E i \in DOMAIN submitted_answers : submitted_answers[i] = None
    THEN [success |-> FALSE, error |-> MsgAnswerAll, rows |-> attempts]
    ELSE IF student_name = ""
    THEN [success |-> FALSE, error |-> MsgErrorSubmitting, rows |-> attempts]
    ELSE LET saved == InsertAttempt(
                 [chapter_id |-> chapter.id,
                  student_name |-> student_name,
                  submitted_answers |-> submitted_answers,
                  score |-> calculate_score(chapter.correct_answers,
                                            submitted_answers),
                  total_questions |-> Len(chapter.correct_answers),
                  attempt_number |->
                      get_attempt_count(chapter.id, student_name) + 1],
                 ioOk)
         IN IF saved.ok
            THEN [success |-> TRUE, error |-> MsgErrorSubmitting,
                  rows |-> saved.rows]
            ELSE [success |-> FALSE, error |-> MsgNone, rows |-> saved.rows]

\* A chapter is created; the page is not involved.
AppCreateChapter ==
    /\ CreateChapterStep
    /\ last' = NoCall
    /\ UNCHANGED now

\* The page is filled in for a chapter of the select box, one radio group
\* per question of the chapter, and the Submit button is pressed.
CallSubmitOmrPage ==
    \E chapter \in chapters, student_name \in StudentInputs,
       submitted_answers \in SeqsUpTo(Labels \cup {None}, MaxLen),
       ioOk \in BOOLEAN :
        LET r == submit_omr_page(chapter, student_name, submitted_answers, ioOk)
        IN /\ Len(submitted_answers) = chapter.num_questions
           /\ Len(attempts) < MaxAttempts
           /\ attempts' = r.rows
           /\ submitted_at' = SubmittedAtOf(r.rows)
           /\ last' = Outcome("submit_omr_page",
                  [chapter |-> chapter, student_name |-> student_name,
                   submitted_answers |-> submitted_answers],
                  [success |-> r.success, error |-> r.error])
           /\ UNCHANGED <<chapters, chapterSeq, pc, loc, subject_id, now>>

NextApp ==
    \/ AppCreateChapter
    \/ CallSubmitOmrPage

SpecApp == Init /\ [][NextApp]_vars

\* ------------------------------------------------------------ the migration
\* The id of the default subject: the first row of a subjects table the
\* migration has just created.
DefaultSubjectId == 1

\* migrate_database (lines 28-77): [chapters, chapterSeq, subject_id]. When
\* the chapters table has a subject_id column nothing is done. Otherwise the
\* table is renamed, a new one with subject_id INTEGER NOT NULL is created,
\* and INSERT INTO chapters (subject_id, chapter_name, ...) SELECT ... FROM
\* chapters_old refills it. The id column is not copied: the rows are read
\* in rowid order and the new table's AUTOINCREMENT numbers them 1, 2, ...
migrate_database ==
    IF subject_id.present
    THEN [chapters |-> chapters, chapterSeq |-> chapterSeq,
          subject_id |-> subject_id]
    ELSE LET NewId(c) == Cardinality({d \in chapters : d.id <= c.id})
         IN [chapters |-> {[c EXCEPT !.id = NewId(c)] : c \in chapters},
             chapterSeq |-> Cardinality(chapters),
             subject_id |->
                 [present |-> TRUE, has_default |-> FALSE,
                  value |-> [id \in 1..Cardinality(chapters) |->
                                DefaultSubjectId]]]

StoredStudent == "Student1"

\* A chapter is created, or update_db is run, on either side of the
\* migration.
MigrateChapterWrite ==
    /\ CreateChapterStep \/ UpdateDb
    /\ last' = NoCall
    /\ UNCHANGED now

\* An attempt is stored through the web API.
MigrateSubmitExam ==
    \E id \in 1..MaxChapterId, a \in AnswerInputs :
        /\ Len(attempts) < MaxAttempts
        /\ SubmitExam(id, StoredStudent, a, TRUE)
        /\ last' = NoCall
        /\ UNCHANGED now

\* The migration script is run; the store it found is recorded.
CallMigrateDatabase ==
    LET r == migrate_database
    IN /\ chapters' = r.chapters
       /\ chapterSeq' = r.chapterSeq
       /\ subject_id' = r.subject_id
       /\ last' = Outcome("migrate_database",
              [migrated |-> subject_id.present, chapters |-> chapters],
              <<>>)
       /\ UNCHANGED <<attempts, pc, loc, submitted_at, now>>

NextMigrate ==
    \/ MigrateChapterWrite
    \/ MigrateSubmitExam
    \/ CallMigrateDatabase

SpecMigrate == Init /\ [][NextMigrate]_vars

\* --------------------------------------------------------------- analytics
\* Percentages are exact fractions [num, den] in lowest terms, den > 0; the
\* rounding of the floating-point arithmetic is not modelled.
RECURSIVE GCD(_, _)
GCD(a, b) == IF b = 0 THEN a ELSE GCD(b, a % b)

Rat(n, d) ==
    LET g == GCD(IF n < 0 THEN -n ELSE n, d)
    IN [num |-> n \div g, den |-> d \div g]

RatZero == Rat(0, 1)
\* SQL NULL / Python None in a place that holds a number.
NoNumber == [num |-> 0, den |-> 0]
RatAdd(x, y) == Rat(x.num * y.den + y.num * x.den, x.den * y.den)
RatLeq(x, y) == x.num * y.den <= y.num * x.den

\* a.score / a.total_questions * 100 of one attempts row
Percentage(row) == Rat(row.score * 100, row.total_questions)

\* FROM attempts a JOIN chapters c ON a.chapter_id = c.id: the ids (positions)
\* of the attempts whose chapter is stored.
JoinedAttempts ==
    {i \in DOMAIN attempts : get_chapter_by_id(attempts[i].chapter_id) # {}}

RECURSIVE SumPercentage(_)
SumPercentage(ids) ==
    IF ids = {} THEN RatZero
    ELSE LET i == CHOOSE j \in ids : TRUE
         IN RatAdd(Percentage(attempts[i]), SumPercentage(ids \ {i}))

RECURSIVE SumField(_, _)
SumField(ids, field) ==
    IF ids = {} THEN 0
    ELSE LET i == CHOOSE j \in ids : TRUE
         IN attempts[i][field] + SumField(ids \ {i}, field)

\* RatioOfSums divided by the number of rows instead of sum(total_questions).
RatioOfSumsPerRow(ids) == Rat(SumField(ids, "score") * 100, Cardinality(ids))

\* sum(score) / sum(total_questions) * 100 over the rows ids.
RatioOfSums(ids) ==
    Rat(SumField(ids, "score") * 100, SumField(ids, "total_questions"))

\* MeanPercentage computed as the ratio of the sums.
MeanPercentageOfSums(ids) == RatioOfSums(ids)

\* (score / total_questions * 100).mean(), SQL AVG(score / total_questions
\* * 100), over the non-empty set of rows ids.
MeanPercentage(ids) ==
    LET t == SumPercentage(ids)
    IN Rat(t.num, t.den * Cardinality(ids))

\* SQL AVG over the rows ids: NULL when there is no row.
SqlAvgPercentage(ids) == IF ids = {} THEN NoNumber ELSE MeanPercentage(ids)

\* OrZero that passes a NULL on.
OrZeroMissing(x) == x

\* Python's "x or 0": a NULL (None) and a zero both give 0.
OrZero(x) == IF x = NoNumber THEN RatZero ELSE x

\* AnalyticsService.get_overall_statistics.
get_overall_statistics ==
    IF JoinedAttempts = {}
    THEN [total_chapters |-> Cardinality(chapters), total_attempts |-> 0,
          unique_students |-> 0, overall_avg_percentage |-> RatZero]
    ELSE [total_chapters |-> Cardinality(chapters),
          total_attempts |-> Cardinality(JoinedAttempts),
          unique_students |-> Cardinality(
              {attempts[i].student_name : i \in JoinedAttempts}),
          overall_avg_percentage |-> MeanPercentage(JoinedAttempts)]

\* get_analytics: the rows its WHERE clause keeps. An absent or empty
\* student parameter adds no condition.
AnalyticsMatching(student_filter) ==
    {i \in JoinedAttempts :
        student_filter \in {None, ""}
            \/ attempts[i].student_name = student_filter}

\* A query parameter that is looked at as text (subject_id, days) is the
\* sequence of its characters; <<>> is a parameter that is absent or empty,
\* which "if x and x.isdigit()" does not tell apart.
Digits == <<"0", "1", "2", "3", "4", "5", "6", "7", "8", "9">>

DigitValue(ch) == (CHOOSE d \in DOMAIN Digits : Digits[d] = ch) - 1

\* str.isdigit() over ASCII text: not empty, every character a digit.
isdigit(text) ==
    /\ text # <<>>
    /\ \A i \in DOMAIN text : \E d \in DOMAIN Digits : Digits[d] = text[i]

\* int(text) of a text of digits; SQLite reads the N of '-N days' the same way.
RECURSIVE int(_)
int(text) ==
    IF text = <<>> THEN 0
    ELSE int(SubSeq(text, 1, Len(text) - 1)) * 10 + DigitValue(text[Len(text)])

\* date('now', '-' || n || ' days')
SqlDate(n) == <<now - n>>

\* a >= b between two texts: the first place that differs decides, and a
\* text is greater than each of its proper prefixes.
RECURSIVE TextGeq(_, _)
TextGeq(a, b) ==
    IF b = <<>> THEN TRUE
    ELSE IF a = <<>> THEN FALSE
    ELSE IF Head(a) # Head(b) THEN Head(a) > Head(b)
    ELSE TextGeq(Tail(a), Tail(b))

\* a.student_name = ?, added to the query when "if student_filter:" holds.
StudentClause(i, student_filter) ==
    student_filter \in {None, ""} \/ attempts[i].student_name = student_filter

\* c.subject_id = ? for the chapter an attempt is joined with.
SubjectClause(chapter_id, subject_id_filter) ==
    ~isdigit(subject_id_filter)
        \/ subject_id.value[chapter_id] = int(subject_id_filter)

\* DaysClause with the boundary day left out.
DaysClauseAfter(i, days) ==
    ~isdigit(days) \/ submitted_at[i][1] > now - int(days)

\* a.submitted_at >= date('now', '-' || ? || ' days')
DaysClause(i, days) ==
    ~isdigit(days) \/ TextGeq(submitted_at[i], SqlDate(int(days)))

\* FilteredAttempts with the conditions joined by OR.
FilteredAttemptsAny(student_filter, subject_id_filter, days) ==
    {i \in JoinedAttempts :
        \/ StudentClause(i, student_filter)
        \/ SubjectClause(attempts[i].chapter_id, subject_id_filter)
        \/ DaysClause(i, days)}

\* FROM attempts a JOIN chapters c ON a.chapter_id = c.id {where_clause}:
\* the ids of the rows (lines 249-265).
FilteredAttempts(student_filter, subject_id_filter, days) ==
    {i \in JoinedAttempts :
        /\ StudentClause(i, student_filter)
        /\ SubjectClause(attempts[i].chapter_id, subject_id_filter)
        /\ DaysClause(i, days)}

\* ChapterListing without the chapter_where.
ChapterListingAll(subject_id_filter) == chapters

\* FROM chapters c {chapter_where}
ChapterListing(subject_id_filter) ==
    {c \in chapters : SubjectClause(c.id, subject_id_filter)}

\* ChapterJoin as an inner JOIN: a chapter with no matching attempt has no
\* row.
ChapterInnerJoin(student_filter, subject_id_filter, days) ==
    {<<c, i>> \in ChapterListing(subject_id_filter) \X DOMAIN attempts :
        /\ attempts[i].chapter_id = c.id
        /\ StudentClause(i, student_filter)
        /\ DaysClause(i, days)}

\* FROM chapters c LEFT JOIN attempts a ON c.id = a.chapter_id {join_clause}
\* {chapter_where}: pairs <<chapter, attempt id>>, and <<chapter, 0>> (a.id
\* NULL) for a chapter no attempt matches.
ChapterJoin(student_filter, subject_id_filter, days) ==
    LET matched == ChapterInnerJoin(student_filter, subject_id_filter, days)
    IN matched \cup
       {<<c, 0>> : c \in {d \in ChapterListing(subject_id_filter) :
                              ~\E i \in DOMAIN attempts : <<d, i>> \in matched}}

\* MAX(score) over the rows ids, then "or 0".
BestScore(ids) ==
    IF ids = {} THEN 0
    ELSE CHOOSE m \in {attempts[i].score : i \in ids} :
             \A i \in ids : attempts[i].score <= m

\* GROUP BY c.id over the join, and the dictionary built from each group
\* (lines 321-348); COUNT(a.id) skips the NULL of an unmatched chapter. The
\* ORDER BY total_attempts DESC is left out: chapter_stats is the set of the
\* rows.
ChapterStats(student_filter, subject_id_filter, days) ==
    LET join == ChapterJoin(student_filter, subject_id_filter, days)
        ids(g) == {p[2] : p \in {q \in join : q[1].id = g /\ q[2] # 0}}
    IN {[chapter_id |-> g,
         chapter_name |-> (CHOOSE p \in join : p[1].id = g)[1].chapter_name,
         total_attempts |-> Cardinality(ids(g)),
         best_score |-> BestScore(ids(g)),
         avg_percentage |-> OrZero(SqlAvgPercentage(ids(g))),
         avg_accuracy |-> OrZero(SqlAvgPercentage(ids(g)))] :
            g \in {p[1].id : p \in join}}

\* get_analytics, the response (lines 282-370): total_attempts is
\* attempts_count, avg_percentage the value the response rounds to avg_score,
\* all_attempts the a.id of its rows (their order, submitted_at DESC, is left
\* out). chapter_id is not among the parameters the handler reads.
get_analytics(student_filter, subject_id_filter, days) ==
    LET ids == FilteredAttempts(student_filter, subject_id_filter, days)
    IN [total_attempts |-> Cardinality(ids),
        avg_percentage |-> OrZero(SqlAvgPercentage(ids)),
        chapter_stats |->
            ChapterStats(student_filter, subject_id_filter, days),
        all_attempts |-> ids]

\* groupby('chapter_name') over get_all_attempts: the rows of one group.
ChapterRows(chapter_name) ==
    {i \in JoinedAttempts :
        \E c \in get_chapter_by_id(attempts[i].chapter_id) :
            c.chapter_name = chapter_name}

\* AnalyticsService.get_chapter_statistics: an empty frame when there is no
\* attempt, else one row per group; 'first' is the row of the least id. The
\* frame is the set of its rows, Avg Score and Avg Percentage exact fractions
\* (the .round(2) is left out).
get_chapter_statistics ==
    {[Chapter |-> name,
      TotalAttempts |-> Cardinality(ChapterRows(name)),
      AvgScore |-> Rat(SumField(ChapterRows(name), "score"),
                       Cardinality(ChapterRows(name))),
      TotalQuestions |->
          attempts[CHOOSE i \in ChapterRows(name) :
                       \A j \in ChapterRows(name) : i <= j].total_questions,
      UniqueStudents |-> Cardinality(
          {attempts[i].student_name : i \in ChapterRows(name)})] :
        name \in {c.chapter_name : c \in
                     {d \in chapters : \E i \in JoinedAttempts :
                                          attempts[i].chapter_id = d.id}}}

\* Series.round(2): to the nearest hundredth, a tie to the even neighbour.
Round2(x) ==
    LET n == x.num * 100
        q == n \div x.den
        r == n % x.den
    IN IF 2 * r > x.den \/ (2 * r = x.den /\ q % 2 = 1)
       THEN Rat(q + 1, 100)
       ELSE Rat(q, 100)

\* groupby('student_name') over get_all_attempts: the group keys, and the
\* rows of one group.
JoinedStudents == {attempts[i].student_name : i \in JoinedAttempts}
StudentRows(student) ==
    {i \in JoinedAttempts : attempts[i].student_name = student}

\* One row of student_stats (lines 95-111).
StudentStats(student) ==
    [Student |-> student,
     TotalAttempts |-> Cardinality(StudentRows(student)),
     TotalScore |-> SumField(StudentRows(student), "score"),
     TotalQuestions |-> SumField(StudentRows(student), "total_questions"),
     Percentage |-> Round2(RatioOfSums(StudentRows(student)))]

\* TopPerformerOrders sorted with ascending=True.
TopPerformerOrdersAscending ==
    {f \in [1..Cardinality(JoinedStudents) -> JoinedStudents] :
        /\ \A i, j \in DOMAIN f : i # j => f[i] # f[j]
        /\ \A i, j \in DOMAIN f : i < j =>
               RatLeq(StudentStats(f[i]).Percentage,
                      StudentStats(f[j]).Percentage)}

\* sort_values('Percentage', ascending=False): the default sort kind is not
\* stable, so students of equal Percentage come in any order.
TopPerformerOrders ==
    {f \in [1..Cardinality(JoinedStudents) -> JoinedStudents] :
        /\ \A i, j \in DOMAIN f : i # j => f[i] # f[j]
        /\ \A i, j \in DOMAIN f : i < j =>
               RatLeq(StudentStats(f[j]).Percentage,
                      StudentStats(f[i]).Percentage)}

\* AnalyticsService.get_top_performers for 0 <= limit: the first limit rows
\* of the sorted frame; an empty frame when there is no attempt.
get_top_performers(limit, order) ==
    [i \in 1..(IF limit < Len(order) THEN limit ELSE Len(order)) |->
        StudentStats(order[i])]

\* Reads of the analytics, each recorded in `last`, over the stores the
\* entry points build; a write to the store forgets the last read.
StudentFilters == {None, "Student1", "Student2"}

AnalyticsWrite ==
    /\ \/ CreateChapterStep
       \/ UpdateDb
       \/ Len(attempts) < MaxAttempts /\ SubmitAttemptStep
       \/ Len(attempts) < MaxAttempts /\ SubmitExamStep
    /\ last' = NoCall
    /\ UNCHANGED now

\* A read is taken from the state a write left: reads change nothing, so a
\* read after a read reaches no state a read after the write does not.
CallGetOverallStatistics ==
    /\ last = NoCall
    /\ last' = Outcome("get_overall_statistics", <<>>, get_overall_statistics)
    /\ UNCHANGED <<chapters, chapterSeq, attempts, pc, loc,
                     subject_id, submitted_at, now>>

CallGetAnalytics ==
    \E student \in StudentFilters :
        /\ last = NoCall
        /\ last' = Outcome("get_analytics", [student |-> student],
                           get_analytics(student, <<>>, <<>>))
        /\ UNCHANGED <<chapters, chapterSeq, attempts, pc, loc,
                     subject_id, submitted_at, now>>

CallGetTopPerformers ==
    \E limit \in 0..MaxLimit, order \in TopPerformerOrders :
        /\ last = NoCall
        /\ last' = Outcome("get_top_performers", [limit |-> limit],
                           get_top_performers(limit, order))
        /\ UNCHANGED <<chapters, chapterSeq, attempts, pc, loc,
                     subject_id, submitted_at, now>>

NextAnalytics ==
    \/ AnalyticsWrite
    \/ CallGetOverallStatistics
    \/ CallGetAnalytics
    \/ CallGetTopPerformers

SpecAnalytics == Init /\ [][NextAnalytics]_vars

\* The web API's analytics with its filters, over stores that init_db has
\* given the subject_id column: chapters of two subjects inserted as
\* seed_data of tests/test_analytics_full.py inserts them, the sample chapter
\* of update_db.py, attempts submitted through submit_exam on different days.
\* A write forgets the last read; a read leaves the store as it is, so each
\* read is taken from the state a write left (a second read in a row reaches
\* no state the first does not).
SeedChapters == {[chapter_name |-> "Algebra", subject_id |-> 1],
                 [chapter_name |-> "Physics", subject_id |-> 2]}
StoredStudents == {"Student1", "Student2"}
FilterStudents == {None, "Student1"}
FilterSubjects == {<<>>, <<"1">>, <<"2">>, <<"x">>}
FilterDays == {<<>>, <<"0">>, <<"1">>}
\* chapter_id, a parameter the tests send (test_filter_by_chapter).
FilterChapters == {<<>>, <<"1">>}

\* init_db of web_app.py on a store initialize_database created: ALTER TABLE
\* chapters ADD COLUMN subject_id INTEGER NOT NULL DEFAULT 1.
InitDb ==
    /\ ~subject_id.present
    /\ subject_id' = [present |-> TRUE, has_default |-> TRUE,
                      value |-> [id \in {c.id : c \in chapters} |->
                                    SubjectIdDefault]]
    /\ last' = NoCall
    /\ UNCHANGED <<chapters, chapterSeq, attempts, pc, loc, submitted_at, now>>

\* INSERT INTO chapters (subject_id, chapter_name, ...) of seed_data.
SeedChapter ==
    \E seed \in SeedChapters :
        LET new == InsertChapter(seed.chapter_name, 1, 4, <<"A">>)
        IN /\ subject_id.present
           /\ chapterSeq < MaxChapterId
           /\ chapterSeq + Len(attempts) + now < MaxFilterSize
           /\ get_chapter_by_name(seed.chapter_name) = {}
           /\ chapters' = chapters \cup {new}
           /\ chapterSeq' = chapterSeq + 1
           /\ subject_id' = [subject_id EXCEPT !.value =
                  [id \in DOMAIN subject_id.value \cup {new.id} |->
                      IF id = new.id THEN seed.subject_id
                      ELSE subject_id.value[id]]]
           /\ last' = NoCall
           /\ UNCHANGED <<attempts, pc, loc, submitted_at, now>>

FilterUpdateDb ==
    /\ subject_id.present
    /\ chapterSeq + Len(attempts) + now < MaxFilterSize
    /\ UpdateDb
    /\ last' = NoCall
    /\ UNCHANGED now

FilterSubmitExam ==
    \E id \in 1..MaxChapterId, s \in StoredStudents :
        /\ subject_id.present
        /\ Len(attempts) < MaxAttempts
        /\ chapterSeq + Len(attempts) + now < MaxFilterSize
        /\ SubmitExam(id, s, <<"A">>, TRUE)
        /\ last' = NoCall
        /\ UNCHANGED now

\* A day passes.
Tick ==
    /\ subject_id.present
    /\ now < MaxDay
    /\ chapterSeq + Len(attempts) + now < MaxFilterSize
    /\ now' = now + 1
    /\ last' = NoCall
    /\ UNCHANGED <<chapters, chapterSeq, attempts, pc, loc,
                   subject_id, submitted_at>>

CallGetAnalyticsFiltered ==
    \E student \in FilterStudents, subject \in FilterSubjects,
       days \in FilterDays, chapter \in FilterChapters :
        /\ subject_id.present
        /\ last = NoCall
        /\ last' = Outcome("get_analytics",
               [student |-> student, subject_id |-> subject, days |-> days,
                chapter_id |-> chapter],
               get_analytics(student, subject, days))
        /\ UNCHANGED <<chapters, chapterSeq, attempts, pc, loc,
                       subject_id, submitted_at, now>>

CallGetChapterStatistics ==
    /\ subject_id.present
    /\ last = NoCall
    /\ last' = Outcome("get_chapter_statistics", <<>>, get_chapter_statistics)
    /\ UNCHANGED <<chapters, chapterSeq, attempts, pc, loc,
                   subject_id, submitted_at, now>>

NextFilters ==
    \/ InitDb
    \/ SeedChapter
    \/ FilterUpdateDb
    \/ FilterSubmitExam
    \/ Tick
    \/ CallGetAnalyticsFiltered
    \/ CallGetChapterStatistics

SpecFilters == Init /\ [][NextFilters]_vars

\* ------------------------------------------------------------- connections
\* What a handler leaves of the connection it opened: [opened, closed], closed
\* meaning conn.close() ran before the handler returned.
\* DatabaseManager.get_connection: the finally clause closes the connection
\* whether the body returned or raised.
get_connection(raised) == [opened |-> TRUE, closed |-> TRUE]

\* submit_exam: get_db() at line 152 and conn.close() at line 181 only, after
\* the commit; the 'Chapter not found' return and every exception leave
\* before it.
submit_exam_connection(chapter_id, student_name, submitted_answers, ioOk) ==
    [opened |-> TRUE,
     closed |->
         submit_exam(chapter_id, student_name, submitted_answers, ioOk).success]

\* export_chapter_results: no connection without a chapter name; the
\* 'No results found' return comes before the try whose finally closes.
export_chapter_results(chapter_name) ==
    IF chapter_name \in {None, ""}
    THEN [status |-> 400, opened |-> FALSE, closed |-> FALSE]
    ELSE IF ChapterRows(chapter_name) = {}
    THEN [status |-> 404, opened |-> TRUE, closed |-> FALSE]
    ELSE [status |-> 200, opened |-> TRUE, closed |-> TRUE]

\* The connection once the handler has returned: a connection that was not
\* closed stays open until the Connection object is collected, which may or
\* may not have happened by then.
ConnectionAfter(conn, collected) ==
    IF ~conn.opened THEN "none"
    ELSE IF conn.closed \/ collected THEN "closed"
    ELSE "open"

ExportNames == {None, "Algebra", SampleChapterName}
\* An answer list as long as a one-question key, and one longer.
ConnAnswers == { <<"A">>, <<"A", "B">> }

ConnCreateChapter ==
    \E name \in ChapterNames, nq \in {1, 2}, key \in KeyInputs,
       ioOk \in BOOLEAN :
        LET r == create_chapter(name, nq, 4, key, ioOk)
        IN /\ CreateChapter(name, nq, 4, key, ioOk)
           /\ last' = Outcome("save_chapter",
                  [chapter_name |-> name],
                  [success |-> r.success,
                   connection |->
                       ConnectionAfter(get_connection(~r.success), FALSE)])
           /\ UNCHANGED now

ConnUpdateDb ==
    /\ UpdateDb
    /\ last' = NoCall
    /\ UNCHANGED now

ConnSubmitAttempt ==
    \E chapter \in chapters, s \in StudentInputs, a \in ConnAnswers,
       ioOk \in BOOLEAN :
        LET r == submit_attempt(chapter, s, a, ioOk)
        IN /\ Len(r.rows) <= MaxWebAttempts
           /\ SubmitAttempt(chapter, s, a, ioOk)
           /\ last' = Outcome("save_attempt",
                  [chapter_id |-> chapter.id, student_name |-> s],
                  [success |-> r.success,
                   connection |->
                       ConnectionAfter(get_connection(~r.success), FALSE)])
           /\ UNCHANGED now

ConnSubmitExam ==
    \E id \in 1..MaxChapterId, s \in {"Student1", None},
       a \in ConnAnswers, ioOk \in BOOLEAN, collected \in BOOLEAN :
        LET r == submit_exam(id, s, a, ioOk)
        IN /\ Len(r.rows) <= MaxWebAttempts
           /\ SubmitExam(id, s, a, ioOk)
           /\ last' = Outcome("submit_exam",
                  [chapter_id |-> id, student_name |-> s],
                  [success |-> r.success, message |-> r.message,
                   connection |-> ConnectionAfter(
                       submit_exam_connection(id, s, a, ioOk), collected)])
           /\ UNCHANGED now

ConnExportChapterResults ==
    \E name \in ExportNames, collected \in BOOLEAN :
        /\ last' = Outcome("export_chapter_results",
               [chapter_name |-> name],
               [status |-> export_chapter_results(name).status,
                connection |-> ConnectionAfter(export_chapter_results(name),
                                               collected)])
        /\ UNCHANGED <<chapters, chapterSeq, attempts, pc, loc,
                       subject_id, submitted_at, now>>

NextConnections ==
    \/ ConnCreateChapter
    \/ ConnUpdateDb
    \/ ConnSubmitAttempt
    \/ ConnSubmitExam
    \/ ConnExportChapterResults

SpecConnections == Init /\ [][NextConnections]_vars

\* The option-letter resolvers on their own: OptionHelper (utils/helpers.py)
\* and the function of the same name in app.py.
OptionAnswers == {OPTION_LETTERS[i] : i \in DOMAIN OPTION_LETTERS} \cup {"I", None}

CallGetOptionLetters ==
    \E impl \in {"helpers", "app"}, n \in (-1)..MaxOptionCount :
        /\ last' = Outcome("get_option_letters",
               [impl |-> impl, num_options |-> n],
               IF impl = "helpers" THEN get_option_letters(n)
               ELSE app_get_option_letters(n))
        /\ UNCHANGED <<chapters, chapterSeq, attempts, pc, loc,
                     subject_id, submitted_at, now>>

CallValidateAnswer ==
    \E answer \in OptionAnswers, n \in (-1)..MaxOptionCount :
        /\ last' = Outcome("validate_answer",
               [answer |-> answer, num_options |-> n],
               validate_answer(answer, n))
        /\ UNCHANGED <<chapters, chapterSeq, attempts, pc, loc,
                     subject_id, submitted_at, now>>

NextOptions ==
    \/ CallGetOptionLetters
    \/ CallValidateAnswer

SpecOptions == Init /\ [][NextOptions]_vars

\* =================================================================== claims
SamePair(r1, r2) ==
    r1.chapter_id = r2.chapter_id /\ r1.student_name = r2.student_name

HasNone(answers) == \E i \in DOMAIN answers : answers[i] = None

StoreUnchanged == UNCHANGED <<chapters, chapterSeq, attempts>>

\* C1 (SpecSerial): when calls run one after another, every stored attempt
\* carries 1 + the number of attempts stored before it for the same
\* (chapter_id, student_name), so the numbers of a pair are 1, 2, ..., N in
\* submission order, whichever entry point made each submission.
AttemptNumbersSequential ==
    \A i \in DOMAIN attempts :
        attempts[i].attempt_number =
            1 + Cardinality({j \in 1..(i - 1) : SamePair(attempts[j], attempts[i])})

\* Three attempts of one pair are stored.
ThreeAttemptsOfOnePair ==
    /\ Len(attempts) >= 3
    /\ SamePair(attempts[1], attempts[2])
    /\ SamePair(attempts[2], attempts[3])
    /\ attempts[3].attempt_number = 3

\* C2 (Spec): the store accepts the row a handler is about to insert as it
\* is, in every reachable state, also when a row with the same
\* (chapter_id, student_name, attempt_number) is already stored; so two
\* handlers that both read before either inserts both persist the same number.
RaceInsertAccepted ==
    \A p \in Procs :
        (pc[p] # "idle" /\ loc[p].student_name # None) =>
            InsertAttempt(loc[p], TRUE) =
                [ok |-> TRUE, rows |-> Append(attempts, loc[p])]

\* Two stored rows of one pair carry the same attempt_number.
DuplicateAttemptNumber ==
    \E i, j \in DOMAIN attempts :
        /\ i < j
        /\ SamePair(attempts[i], attempts[j])
        /\ attempts[i].attempt_number = attempts[j].attempt_number

\* A create_chapter call returned in this step, for a name the store held.
CreateOfExistingName ==
    /\ last'.op = "create_chapter"
    /\ get_chapter_by_name(last'.args.chapter_name) # {}

\* C3 as stated (SpecCalls): create_chapter with a name the store holds
\* returns failure with the 'already exists' message and changes nothing.
DuplicateNameReportsExists ==
    [][CreateOfExistingName =>
          /\ last'.result = [success |-> FALSE, message |-> MsgChapterExists]
          /\ StoreUnchanged]_vars

\* C3 as amended (SpecCalls): create_chapter with a name the store holds
\* returns failure and changes nothing; the message is 'already exists' when
\* the arguments pass the Chapter validation and the store executes the INSERT.
DuplicateNameRejected ==
    [][CreateOfExistingName =>
          /\ ~last'.result.success
          /\ StoreUnchanged
          /\ (/\ ChapterPostInit(last'.args.num_questions,
                                 last'.args.num_options,
                                 last'.args.correct_answers) = MsgNone
              /\ last'.args.ioOk)
             => last'.result.message = MsgChapterExists]_vars

\* create_chapter returned 'already exists' for a name whose stored chapter
\* has another answer key than the one offered.
DuplicateNameSeen ==
    /\ last.op = "create_chapter"
    /\ last.result.message = MsgChapterExists
    /\ \E c \in get_chapter_by_name(last.args.chapter_name) :
           c.correct_answers # last.args.correct_answers

\* C4 (SpecCalls): submit_attempt reports the first violated precondition in
\* the order name, unanswered entry, answer count.
PreconditionOrder ==
    last.op = "submit_attempt" =>
        LET a == last.args
            noName == a.student_name = "" \/ a.student_name = None
            wrongLen == Len(a.submitted_answers) # a.chapter.num_questions
        IN /\ noName => last.result = [success |-> FALSE,
                                       message |-> MsgNameRequired]
           /\ (~noName /\ HasNone(a.submitted_answers)) =>
                  last.result = [success |-> FALSE, message |-> MsgIncomplete]
           /\ (~noName /\ ~HasNone(a.submitted_answers) /\ wrongLen) =>
                  last.result = [success |-> FALSE, message |-> MsgAnswerCount]

\* A submission with an empty name, an unanswered entry and a wrong length
\* was reported as missing-name.
EmptyNameReportedFirst ==
    /\ last.op = "submit_attempt"
    /\ last.args.student_name = ""
    /\ HasNone(last.args.submitted_answers)
    /\ Len(last.args.submitted_answers) # last.args.chapter.num_questions
    /\ last.result.message = MsgNameRequired

\* C5 (SpecCalls): a submit_attempt call that returns failure leaves the
\* chapters and attempts tables as they were.
FailedSubmitLeavesStore ==
    [][(last'.op = "submit_attempt" /\ ~last'.result.success)
          => StoreUnchanged]_vars

\* submit_attempt returned failure because the store write failed, on a
\* store that already holds attempts.
SaveFailureSeen ==
    /\ last.op = "submit_attempt"
    /\ last.result.message = MsgSaveFailed
    /\ attempts # <<>>

Min(a, b) == IF a <= b THEN a ELSE b

\* C6 (SpecScore): calculate_score returns the number of positions below the
\* shorter length at which the submitted entry equals the correct one, an
\* unanswered entry never counting; so len(correct) for equal lists and 0 when
\* every submitted entry differs.
ScoreIsMatchCount ==
    last.op = "calculate_score" =>
        LET c == last.args.correct_answers
            s == last.args.submitted_answers
            n == Min(Len(c), Len(s))
        IN /\ last.result =
                  Cardinality({i \in 1..n : s[i] = c[i] /\ s[i] # None})
           /\ (s = c) => last.result = Len(c)
           /\ (\A i \in 1..n : s[i] # c[i]) => last.result = 0

\* calculate_score returned a positive score for lists of different lengths
\* with an unanswered entry below the shorter length.
TruncatedScoreSeen ==
    /\ last.op = "calculate_score"
    /\ Len(last.args.correct_answers) # Len(last.args.submitted_answers)
    /\ \E i \in 1..Min(Len(last.args.correct_answers),
                       Len(last.args.submitted_answers)) :
           last.args.submitted_answers[i] = None
    /\ last.result >= 1

\* C7 (SpecSerial): every stored attempt has as many submitted answers as its
\* total_questions, whichever entry point stored it.
AnswersMatchTotal ==
    \A i \in DOMAIN attempts :
        Len(attempts[i].submitted_answers) = attempts[i].total_questions

\* C8 (SpecSerial): every stored attempt has 0 <= score <= total_questions.
ScoreWithinTotal ==
    \A i \in DOMAIN attempts :
        0 <= attempts[i].score /\ attempts[i].score <= attempts[i].total_questions

\* A full score, and a zero score on a list shorter than the key, are stored.
ScoreBoundsSeen ==
    \E i, j \in DOMAIN attempts :
        /\ attempts[i].score = attempts[i].total_questions
        /\ attempts[j].score = 0
        /\ Len(attempts[j].submitted_answers) < attempts[j].total_questions

\* C9 (SpecSerial): every stored attempt has a non-empty student_name.
StudentNameNonEmpty ==
    \A i \in DOMAIN attempts :
        attempts[i].student_name # "" /\ attempts[i].student_name # None

\* C10 (SpecSerial): every stored attempt's chapter_id is the id of a stored
\* chapter, also after a chapter was deleted.
AttemptsReferenceChapters ==
    \A i \in DOMAIN attempts : get_chapter_by_id(attempts[i].chapter_id) # {}

\* C11 (SpecWeb): a submit_exam request whose chapter_id is the id of no
\* stored chapter returns the 'Chapter not found' failure, not an exception,
\* and stores no attempt.
MissingChapterReported ==
    [][(/\ last'.op = "submit_exam"
        /\ get_chapter_by_id(last'.args.chapter_id) = {})
          => /\ last'.result = [success |-> FALSE,
                                 message |-> MsgChapterNotFound]
             /\ StoreUnchanged]_vars

\* 'Chapter not found' was returned for the id of a chapter that update_db.py
\* deleted, an id a stored attempt still carries.
DeletedChapterNotFound ==
    /\ last.op = "submit_exam"
    /\ last.result.message = MsgChapterNotFound
    /\ \E i \in DOMAIN attempts :
           attempts[i].chapter_id = last.args.chapter_id

\* C12 (SpecCalls): a successful submit_attempt returns the attempt with the
\* id of the row the store added and with that row's attempt_number.
ReturnedAttemptCarriesId ==
    [][(last'.op = "submit_attempt" /\ last'.result.success) =>
          LET a == last'.args
              r == submit_attempt(a.chapter, a.student_name,
                                  a.submitted_answers, a.ioOk)
          IN /\ r.attempt.id # None
             /\ r.attempt.id = Len(attempts')
             /\ r.attempt.attempt_number =
                    attempts'[Len(attempts')].attempt_number]_vars

\* C13 (SpecCalls): after a successful create_chapter, get_chapter_by_name
\* with the same name finds one chapter, whose correct_answers equals the
\* list that was given, element for element and in order.
AnswerKeyRoundTrip ==
    (last.op = "create_chapter" /\ last.result.success) =>
        /\ Cardinality(get_chapter_by_name(last.args.chapter_name)) = 1
        /\ \A c \in get_chapter_by_name(last.args.chapter_name) :
               /\ Len(c.correct_answers) = Len(last.args.correct_answers)
               /\ \A i \in 1..Len(c.correct_answers) :
                      c.correct_answers[i] = last.args.correct_answers[i]

\* A chapter with a two-label key was created and is read back.
TwoLabelKeyReadBack ==
    /\ last.op = "create_chapter"
    /\ last.result.success
    /\ Len(last.args.correct_answers) = 2
    /\ last.args.correct_answers[1] # last.args.correct_answers[2]
    /\ get_chapter_by_name(last.args.chapter_name) # {}

\* C14 (SpecCalls): create_chapter with a key whose length differs from
\* num_questions returns failure and stores nothing, and after every
\* create_chapter call each stored chapter has len(correct_answers) equal to
\* its num_questions.
KeyLengthEnforced ==
    [][last'.op = "create_chapter" =>
          /\ (Len(last'.args.correct_answers) # last'.args.num_questions)
                 => (~last'.result.success /\ StoreUnchanged)
          /\ \A c \in chapters' :
                 Len(c.correct_answers) = c.num_questions]_vars

\* create_chapter refused a key one label short of a positive num_questions,
\* on a store that already holds a chapter.
ShortKeyRefused ==
    /\ last.op = "create_chapter"
    /\ last.args.num_questions = Len(last.args.correct_answers) + 1
    /\ last.result = [success |-> FALSE, message |-> MsgKeyLength]
    /\ chapters # {}

\* C15 (SpecCalls): every stored chapter has a num_options the option
\* alphabet supports and a key made of the first num_options letters only.
KeyLabelsWithinOptions ==
    \A c \in chapters :
        /\ ~get_option_letters(c.num_options).raised
        /\ \A i \in DOMAIN c.correct_answers :
               validate_answer(c.correct_answers[i], c.num_options).valid

\* C16 (SpecOptions): each get_option_letters returns the first n of the
\* labels A..H for 1 <= n <= 8, and raises, returning no list, for any other n.
OptionLettersInRange ==
    last.op = "get_option_letters" =>
        LET n == last.args.num_options
        IN IF 1 <= n /\ n <= Len(OPTION_LETTERS)
           THEN last.result = [raised |-> FALSE,
                               letters |-> SubSeq(OPTION_LETTERS, 1, n)]
           ELSE last.result = [raised |-> TRUE, letters |-> <<>>]

\* The rows the read recorded in `last` covers.
LastMatching ==
    IF last.op = "get_analytics" THEN AnalyticsMatching(last.args.student)
    ELSE JoinedAttempts

LastAverage ==
    IF last.op = "get_analytics" THEN last.result.avg_percentage
    ELSE last.result.overall_avg_percentage

OverallRead == last.op \in {"get_overall_statistics", "get_analytics"}

\* C17 (SpecAnalytics): overall statistics over no matching attempt report
\* total_attempts 0 and the average 0, a number and not a null.
EmptyStatisticsAreZero ==
    (OverallRead /\ LastMatching = {}) =>
        /\ last.result.total_attempts = 0
        /\ LastAverage # NoNumber
        /\ LastAverage = RatZero

\* get_analytics found no attempt of the student asked for on a store that
\* holds attempts of another student.
FilterMatchesNothing ==
    /\ last.op = "get_analytics"
    /\ last.args.student = "Student2"
    /\ JoinedAttempts # {}
    /\ last.result.total_attempts = 0

TotalsVary(ids) ==
    \E i, j \in ids : attempts[i].total_questions # attempts[j].total_questions

PercentagesVary(ids) ==
    \E i, j \in ids : Percentage(attempts[i]) # Percentage(attempts[j])

\* C19 as stated (SpecAnalytics): whenever total_questions differs between
\* two of the matching attempts, the mean of the per-attempt percentages and
\* sum(score) / sum(total_questions) * 100 are different numbers.
VaryingTotalsGiveDifferentAverages ==
    (OverallRead /\ TotalsVary(LastMatching)) =>
        LastAverage # RatioOfSums(LastMatching)

\* C19 as amended (SpecAnalytics): the mean of the per-attempt percentages
\* and sum(score) / sum(total_questions) * 100 differ only when both
\* total_questions and the percentage differ between two of the matching
\* attempts; with one total_questions, or one percentage, they are equal.
AveragesDifferOnlyWhenTotalsVary ==
    (OverallRead /\ LastMatching # {}) =>
        \/ LastAverage = RatioOfSums(LastMatching)
        \/ TotalsVary(LastMatching) /\ PercentagesVary(LastMatching)

\* One student's attempts on chapters of different lengths were read with
\* the student filter, and the two numbers differ.
StudentAveragesDiffer ==
    /\ last.op = "get_analytics"
    /\ last.args.student = "Student1"
    /\ TotalsVary(LastMatching)
    /\ LastAverage # RatioOfSums(LastMatching)

\* Every attempt of a student in the attempts table, whether or not its
\* chapter is still stored.
AllRowsOf(student) ==
    {i \in DOMAIN attempts : attempts[i].student_name = student}

\* C20 as stated (SpecAnalytics): get_top_performers(limit) returns at most
\* limit rows, one per student, each with percentage sum(score) /
\* sum(total_questions) * 100 over all attempts of the student, in
\* non-increasing order of percentage, and no student left out has a higher
\* percentage than a student returned.
TopPerformersByExactRatio ==
    last.op = "get_top_performers" =>
        LET rows == last.result
            names == {attempts[i].student_name : i \in DOMAIN attempts}
            limit == last.args.limit
        IN /\ Len(rows) = (IF limit < Cardinality(names)
                           THEN limit ELSE Cardinality(names))
           /\ \A i, j \in DOMAIN rows : i # j => rows[i].Student # rows[j].Student
           /\ \A i \in DOMAIN rows :
                  rows[i].Percentage = RatioOfSums(AllRowsOf(rows[i].Student))
           /\ \A i, j \in DOMAIN rows : i < j =>
                  RatLeq(rows[j].Percentage, rows[i].Percentage)
           /\ \A n \in names \ {rows[i].Student : i \in DOMAIN rows} :
                  \A i \in DOMAIN rows :
                      RatLeq(RatioOfSums(AllRowsOf(n)), rows[i].Percentage)

\* C20 as amended (SpecAnalytics): for limit >= 0, get_top_performers(limit)
\* returns min(limit, number of students) rows, one per student that has an
\* attempt on a stored chapter, each with percentage sum(score) /
\* sum(total_questions) * 100 over the student's attempts on stored chapters,
\* rounded to two decimals, in non-increasing order of that rounded
\* percentage, and no student left out has a higher rounded percentage than
\* a student returned.
TopPerformersByRoundedRatio ==
    last.op = "get_top_performers" =>
        LET rows == last.result
            limit == last.args.limit
        IN /\ Len(rows) = (IF limit < Cardinality(JoinedStudents)
                           THEN limit ELSE Cardinality(JoinedStudents))
           /\ \A i, j \in DOMAIN rows : i # j => rows[i].Student # rows[j].Student
           /\ \A i \in DOMAIN rows :
                  /\ rows[i].Student \in JoinedStudents
                  /\ rows[i].Percentage =
                         Round2(RatioOfSums(StudentRows(rows[i].Student)))
           /\ \A i, j \in DOMAIN rows : i < j =>
                  RatLeq(rows[j].Percentage, rows[i].Percentage)
           /\ \A n \in JoinedStudents \ {rows[i].Student : i \in DOMAIN rows} :
                  \A i \in DOMAIN rows :
                      RatLeq(Round2(RatioOfSums(StudentRows(n))),
                             rows[i].Percentage)

\* get_top_performers(1) returned the better of two students and left the
\* other out.
BetterStudentReturned ==
    /\ last.op = "get_top_performers"
    /\ last.args.limit = 1
    /\ Len(last.result) = 1
    /\ \E n \in JoinedStudents :
           /\ n # last.result[1].Student
           /\ StudentStats(n).Percentage # last.result[1].Percentage

\* The attempts of chapter c that pass the student and days conditions of the
\* read recorded in `last`.
LastChapterMatching(c) ==
    {i \in DOMAIN attempts :
        /\ attempts[i].chapter_id = c.id
        /\ StudentClause(i, last.args.student)
        /\ DaysClause(i, last.args.days)}

\* The chapter_stats of get_analytics: one row per chapter of the
\* subject-filtered listing, with the count of its matching attempts, and
\* zeros where no attempt matches.
WebChapterStatsPerChapter ==
    last.op = "get_analytics" =>
        LET rows == last.result.chapter_stats
            listing == ChapterListing(last.args.subject_id)
        IN /\ Cardinality(rows) = Cardinality(listing)
           /\ \A c \in listing : \E r \in rows :
                  /\ r.chapter_name = c.chapter_name
                  /\ r.total_attempts = Cardinality(LastChapterMatching(c))
                  /\ LastChapterMatching(c) = {} =>
                         /\ r.best_score = 0
                         /\ r.avg_percentage = RatZero
                         /\ r.avg_accuracy = RatZero

\* C21 as stated (SpecFilters): chapter statistics, of get_analytics and of
\* AnalyticsService.get_chapter_statistics alike, hold exactly one row per
\* chapter of the listing, and a chapter without matching attempts appears
\* with total_attempts 0 and zero metrics.
ChapterStatisticsCoverEveryChapter ==
    /\ WebChapterStatsPerChapter
    /\ last.op = "get_chapter_statistics" =>
           /\ Cardinality(last.result) = Cardinality(chapters)
           /\ \A c \in chapters : \E r \in last.result :
                  /\ r.Chapter = c.chapter_name
                  /\ r.TotalAttempts =
                         Cardinality(ChapterRows(c.chapter_name))

\* C21 (SpecFilters), amended: the chapter_stats of get_analytics hold exactly
\* one row per chapter of the subject-filtered listing, a chapter without
\* matching attempts with total_attempts 0 and zero metrics;
\* get_chapter_statistics holds exactly one row per chapter that has an
\* attempt, and no row for a chapter that has none.
ChapterStatisticsRows ==
    /\ WebChapterStatsPerChapter
    /\ last.op = "get_chapter_statistics" =>
           LET attempted == {c \in chapters : ChapterRows(c.chapter_name) # {}}
           IN /\ Cardinality(last.result) = Cardinality(attempted)
              /\ \A c \in attempted : \E r \in last.result :
                     /\ r.Chapter = c.chapter_name
                     /\ r.TotalAttempts =
                            Cardinality(ChapterRows(c.chapter_name))
              /\ \A r \in last.result : r.TotalAttempts > 0

\* get_analytics answered, under a student filter, with a row of zeros for a
\* chapter that has an attempt of another student, next to a chapter with a
\* matching attempt.
ChapterWithoutMatchListed ==
    /\ last.op = "get_analytics"
    /\ last.args.student = "Student1"
    /\ \E r \in last.result.chapter_stats :
           /\ r.total_attempts = 0
           /\ r.avg_percentage = RatZero
           /\ \E i \in DOMAIN attempts : attempts[i].chapter_id = r.chapter_id
    /\ \E r \in last.result.chapter_stats : r.total_attempts > 0

\* Whether the read recorded in `last` has each filter in effect: a student
\* that is a non-empty text, a subject_id or days that is a text of digits.
LastStudentGiven == last.args.student \notin {None, ""}
LastSubjectGiven == isdigit(last.args.subject_id)
LastDaysGiven == isdigit(last.args.days)

\* Attempt i satisfies every filter in effect of the read recorded in `last`:
\* its student is the one asked for, its chapter is stored under the subject
\* asked for, its day of submission is not before today minus the days.
SatisfiesLastFilters(i) ==
    /\ LastStudentGiven => attempts[i].student_name = last.args.student
    /\ LastSubjectGiven =>
           \E c \in chapters :
               /\ c.id = attempts[i].chapter_id
               /\ subject_id.value[c.id] = int(last.args.subject_id)
    /\ LastDaysGiven => submitted_at[i][1] >= now - int(last.args.days)

ChapterFilterApplied ==
    (last.op = "get_analytics" /\ isdigit(last.args.chapter_id)) =>
        LET expected == {i \in DOMAIN attempts :
                            /\ attempts[i].chapter_id
                                   = int(last.args.chapter_id)
                            /\ get_chapter_by_id(attempts[i].chapter_id) # {}
                            /\ SatisfiesLastFilters(i)}
        IN /\ last.result.all_attempts = expected
           /\ last.result.total_attempts = Cardinality(expected)
           /\ last.result.avg_percentage = OrZero(SqlAvgPercentage(expected))

\* C24 (SpecFilters): under days = N, an attempt the other filters keep is
\* included exactly when its day of submission is today minus N or later.
DaysFilterByDay ==
    (last.op = "get_analytics" /\ LastDaysGiven) =>
        \A i \in FilteredAttempts(last.args.student, last.args.subject_id,
                                  <<>>) :
            i \in last.result.all_attempts
                <=> submitted_at[i][1] >= now - int(last.args.days)

\* get_analytics with days = 0 kept an attempt submitted today, the boundary
\* day, and dropped one submitted the day before.
TodayKeptYesterdayDropped ==
    /\ last.op = "get_analytics"
    /\ last.args.days = <<"0">>
    /\ \E i \in last.result.all_attempts : submitted_at[i][1] = now
    /\ \E j \in JoinedAttempts \ last.result.all_attempts :
           submitted_at[j][1] = now - 1

\* The total_attempts of a set of chapter_stats rows, added up.
RECURSIVE SumTotalAttempts(_)
SumTotalAttempts(rows) ==
    IF rows = {} THEN 0
    ELSE LET r == CHOOSE x \in rows : TRUE
         IN r.total_attempts + SumTotalAttempts(rows \ {r})

\* C29 (SpecFilters): in every get_analytics response the total_attempts of
\* the chapter_stats rows add up to the overall total_attempts, which is the
\* number of entries of all_attempts.
ChapterCountsAddUp ==
    last.op = "get_analytics" =>
        /\ SumTotalAttempts(last.result.chapter_stats)
               = last.result.total_attempts
        /\ last.result.total_attempts = Cardinality(last.result.all_attempts)

\* get_analytics under a subject filter answered with one attempt, while
\* another attempt is stored under a chapter of another subject.
CountsOverOneSubject ==
    /\ last.op = "get_analytics"
    /\ LastSubjectGiven
    /\ last.result.total_attempts = 1
    /\ \E r \in last.result.chapter_stats : r.total_attempts = 1
    /\ Cardinality(JoinedAttempts) = 2

\* C25 (SpecConnections): after every completed operation that opened a store
\* connection, on its success and its failure paths alike, the connection is
\* closed.
ConnectionsClosed ==
    last.op # "none" => last.result.connection # "open"

\* C26 (SpecWebScore): for every key and every submitted list, the score
\* submit_exam computes inline is the score calculate_score gives, and it is
\* computed without failure also when the submission is longer than the key.
WebScoreIsCalculateScore ==
    last.op = "web_score" =>
        /\ ~last.result.raised
        /\ last.result.score =
               calculate_score(last.args.correct_answers,
                               last.args.submitted_answers)

\* C27 (SpecSerial): when calls run one after another, in every store state
\* and for every chapter id and student name, the number submit_attempt would
\* give next (stored rows of the pair, plus one) is the number submit_exam
\* would give next (largest stored attempt_number of the pair, plus one).
AttemptNumberRulesAgree ==
    \A chapter_id \in 1..MaxChapterId, student_name \in StudentInputs \cup {None} :
        get_attempt_count(chapter_id, student_name) + 1 =
            max_attempt(chapter_id, student_name) + 1

\* One pair has two attempts stored, numbered 1 and 2, and both rules give 3
\* next. The first has an unanswered question, which only submit_exam
\* stores; the second is complete, as submit_attempt requires.
PairWithTwoAttempts ==
    \E i, j \in DOMAIN attempts :
        /\ i < j
        /\ SamePair(attempts[i], attempts[j])
        /\ HasNone(attempts[i].submitted_answers)
        /\ ~HasNone(attempts[j].submitted_answers)
        /\ attempts[j].student_name # ""
        /\ Len(attempts[j].submitted_answers) = attempts[j].total_questions
        /\ attempts[i].attempt_number = 1
        /\ attempts[j].attempt_number = 2
        /\ get_attempt_count(attempts[i].chapter_id,
                             attempts[i].student_name) + 1 = 3
        /\ max_attempt(attempts[i].chapter_id,
                       attempts[i].student_name) + 1 = 3

\* C28 (SpecApp): a submission through submit_omr_page that reports an error
\* to the user has added no attempt row, and a submission that added an
\* attempt row has reported success.
PageErrorPersistsNothing ==
    [][last'.op = "submit_omr_page" =>
          /\ (last'.result.error # MsgNone => attempts' = attempts)
          /\ (attempts' # attempts => last'.result.success)]_vars

\* The chapter an attempt's chapter_id refers to, none when no chapter has
\* that id.
ChapterOfAttempt(i, rows) == {c \in rows : c.id = attempts[i].chapter_id}

\* C30 (SpecMigrate): a run of migrate_database leaves every chapter its id,
\* so the chapter_id of each stored attempt refers after the run to a chapter
\* of the same name and answer key as before it, also when the chapter ids
\* have gaps; and a run on a store that has been migrated changes nothing.
MigrationPreservesChapterIds ==
    [][last'.op = "migrate_database" =>
          /\ \A c \in chapters : \E d \in chapters' :
                 /\ d.id = c.id
                 /\ d.chapter_name = c.chapter_name
                 /\ d.correct_answers = c.correct_answers
          /\ \A i \in DOMAIN attempts : \A c \in ChapterOfAttempt(i, chapters) :
                 \E d \in ChapterOfAttempt(i, chapters') :
                     /\ d.chapter_name = c.chapter_name
                     /\ d.correct_answers = c.correct_answers
          /\ (subject_id.present =>
                 UNCHANGED <<chapters, chapterSeq, attempts, subject_id,
                             submitted_at>>)]_vars

====
